---------------------------- MODULE Spec2Model ----------------------------
(***************************************************************************)
(* A model of the preview iframe page (src/app/page.tsx): the zod schema   *)
(* that validates inbound window messages, the message listener that       *)
(* updates the React state of BraintrustCodeRenderer, the banner-dismiss   *)
(* timers it schedules, the preview builder and the two effects.           *)
(*                                                                         *)
(* JSON values are encoded as follows: an object is a record whose domain  *)
(* is the set of keys that are present (an absent key is undefined), an    *)
(* array is a tuple, a string is a string.  Every key that is present      *)
(* holds a value of the JSON type the schema declares for it; what the     *)
(* payloads vary is which keys are present, which strings and arrays are   *)
(* empty, and which undeclared keys are added.                             *)
(***************************************************************************)
EXTENDS Integers, Sequences, FiniteSets, TLC

VARIABLES
    proj,          \* useState<Project | null>          (page.tsx:93)
    selected,      \* useState<ProjectFile | null>      (page.tsx:94)
    tab,           \* useState<"preview"|"files"|"info"> (page.tsx:95)
    html,          \* useState("")                      (page.tsx:96)
    rej,           \* useState<Rejected[]>              (page.tsx:97)
    banner,        \* useState(false)                   (page.tsx:98)
    previewError,  \* useState<string | null>           (page.tsx:99)
    status,        \* useState<ConnectionStatus>        (page.tsx:100)
    timers,        \* pending setTimeout callbacks, as their due times, in scheduling order
    now,           \* the wall clock, in milliseconds (Date.now())
    lastEvt,       \* history: the MessageEvent most recently delivered to the listener,
                   \* with its position in the sequence of delivered events
    fault,         \* environment: the statements of buildPreview that throw when they run
    frame,         \* the preview iframe's script: the global object it runs against
                   \* and what it has rendered into #root
    src            \* a text under stripTS: the input, the current text and the passes run

pageVars == <<proj, selected, tab, html, rej, banner, previewError, status, timers, now, lastEvt>>

vars == <<proj, selected, tab, html, rej, banner, previewError, status, timers, now, lastEvt,
          fault, frame, src>>

\* JavaScript null, and the history variable's value before any event.
NULL == [null |-> TRUE]
NoEvent == [seq |-> 0]
\* The values of fault, frame and src while nothing throws, no preview script
\* has run and no text is being stripped.
NoFault == [build |-> FALSE, strip |-> {}]
NoFrame == [ran |-> FALSE, window |-> <<>>]
NoSource == [passes |-> 0, input |-> "", text |-> ""]

---------------------------------------------------------------------------
(* Bounds of the model. *)

\* Messages delivered in one behaviour of Spec.
MaxMsgs == 3
\* Messages delivered in one behaviour of SpecSchema.
MaxSchemaMsgs == 2
\* Messages delivered in one behaviour of SpecLog (a burst that overflows the log).
MaxLogMsgs == 11
\* The clock stops advancing once it has reached this time (ms).
MaxTime == 15000
\* The amount by which one Tick advances the clock (ms).
TickStep == 5000
\* Messages delivered in one behaviour of SpecFaults.
MaxFaultMsgs == 2
\* Fragments concatenated into one input text of SpecStrip.
MaxFragments == 2
\* Runs of stripTS over one text in SpecStrip.
MaxPasses == 2

(* Program constants. *)

\* setTimeout(() => setBanner(false), 10000)
BannerDelay == 10000
\* p.slice(0, 9): the entries kept behind a new rejection
KeepRejected == 9
\* z.string().min(1, ...) and z.array(file).min(1, ...)
MinLen == 1

---------------------------------------------------------------------------
(* String helpers (String.prototype.includes / endsWith, Array.join). *)

Min(a, b) == IF a < b THEN a ELSE b

Includes(s, sub) ==
    \E i \in 1..(Len(s) - Len(sub) + 1) : SubSeq(s, i, i + Len(sub) - 1) = sub

EndsWith(s, suf) ==
    Len(suf) <= Len(s) /\ SubSeq(s, Len(s) - Len(suf) + 1, Len(s)) = suf

RECURSIVE Join(_, _)
Join(strs, sep) ==
    IF strs = <<>> THEN ""
    ELSE IF Len(strs) = 1 THEN strs[1]
    ELSE strs[1] \o sep \o Join(Tail(strs), sep)

Has(o, k) == k \in DOMAIN o

\* An array index as it appears in an issue path, written in decimal.
IdxKey(i) == ToString(i - 1)

---------------------------------------------------------------------------
(* The zod schema (page.tsx:12-26), as zod 3 evaluates it.                 *)
(*                                                                         *)
(* A parse returns a status and the issues it added.  "aborted" is zod's   *)
(* INVALID: a wrong type, a missing required key, a wrong literal.         *)
(* "dirty" is a value of the right type that failed a refinement, here     *)
(* .min(1).  An object or array is aborted when a member is aborted and    *)
(* dirty when a member is dirty; every member is parsed, in shape order,   *)
(* so the issues of all members are collected.  Keys that the shape does   *)
(* not declare are stripped from the output (z.object's default).          *)

Valid(issues) == [status |-> "valid", issues |-> issues]
Dirty(issues) == [status |-> "dirty", issues |-> issues]
Aborted(issues) == [status |-> "aborted", issues |-> issues]

\* ParseStatus.mergeObjectSync / mergeArray
Merge(results) ==
    LET n == Len(results)
        RECURSIVE Cat(_)
        Cat(i) == IF i > n THEN <<>> ELSE results[i].issues \o Cat(i + 1)
        st == IF \E i \in 1..n : results[i].status = "aborted" THEN "aborted"
              ELSE IF \E i \in 1..n : results[i].status = "dirty" THEN "dirty"
              ELSE "valid"
    IN [status |-> st, issues |-> Cat(1)]

Required(expected, path) ==
    [code |-> "invalid_type", expected |-> expected, received |-> "undefined",
     path |-> path, message |-> "Required"]

\* Mutant of ParseString: the .min(1) refinement is left out.
ParseStringNoMin(o, k, min, message, path) ==
    IF ~Has(o, k) THEN Aborted(<<Required("string", path \o <<k>>)>>) ELSE Valid(<<>>)

\* z.string().min(min, message) applied to o[k]; min = 0 is a plain z.string()
ParseString(o, k, min, message, path) ==
    IF ~Has(o, k) THEN Aborted(<<Required("string", path \o <<k>>)>>)
    ELSE IF Len(o[k]) < min
         THEN Dirty(<<[code |-> "too_small", minimum |-> min, type |-> "string",
                       inclusive |-> TRUE, exact |-> FALSE, message |-> message,
                       path |-> path \o <<k>>]>>)
         ELSE Valid(<<>>)

\* z.string().optional() applied to o[k]
ParseOptionalString(o, k, path) ==
    IF ~Has(o, k) THEN Valid(<<>>) ELSE ParseString(o, k, 0, "", path)

\* Mutant of ParseFile: content declared optional.
ParseFileContentOptional(f, path) ==
    Merge(<<ParseString(f, "path", MinLen, "File path cannot be empty", path),
            ParseOptionalString(f, "content", path),
            ParseString(f, "type", MinLen, "File type cannot be empty", path)>>)

\* const file = z.object({ path, content, type })
ParseFile(f, path) ==
    Merge(<<ParseString(f, "path", MinLen, "File path cannot be empty", path),
            ParseString(f, "content", 0, "", path),
            ParseString(f, "type", MinLen, "File type cannot be empty", path)>>)

\* files: z.array(file).min(1, "At least one file is required")
ParseFiles(p, path) ==
    IF ~Has(p, "files") THEN Aborted(<<Required("array", path \o <<"files">>)>>)
    ELSE LET arr == p.files
             here == path \o <<"files">>
             small == IF Len(arr) < MinLen
                      THEN Dirty(<<[code |-> "too_small", minimum |-> MinLen,
                                    type |-> "array", inclusive |-> TRUE,
                                    exact |-> FALSE,
                                    message |-> "At least one file is required",
                                    path |-> here]>>)
                      ELSE Valid(<<>>)
         IN Merge(<<small>> \o [i \in 1..Len(arr) |-> ParseFile(arr[i], here \o <<IdxKey(i)>>)])

\* const project = z.object({ files, description, instructions })
ParseProject(p, path) ==
    Merge(<<ParseFiles(p, path),
            ParseOptionalString(p, "description", path),
            ParseOptionalString(p, "instructions", path)>>)

\* type: z.literal("data")
ParseLiteralData(m) ==
    IF Has(m, "type") /\ m.type = "data" THEN Valid(<<>>)
    ELSE Aborted(<<[code |-> "invalid_literal", expected |-> "data",
                    received |-> IF Has(m, "type") THEN m.type ELSE "undefined",
                    path |-> <<"type">>, message |-> "Invalid literal value"]>>)

\* const flat = z.object({ type: z.literal("data"), data: project })
ParseFlat(m) ==
    Merge(<<ParseLiteralData(m),
            IF ~Has(m, "data") THEN Aborted(<<Required("object", <<"data">>)>>)
            ELSE ParseProject(m.data, <<"data">>)>>)

\* const span = z.object({ type, data: z.object({ output: z.object({ data: project }) }) })
ParseSpan(m) ==
    Merge(<<ParseLiteralData(m),
            IF ~Has(m, "data") THEN Aborted(<<Required("object", <<"data">>)>>)
            ELSE IF ~Has(m.data, "output")
                 THEN Aborted(<<Required("object", <<"data", "output">>)>>)
            ELSE IF ~Has(m.data.output, "data")
                 THEN Aborted(<<Required("object", <<"data", "output", "data">>)>>)
            ELSE ParseProject(m.data.output.data, <<"data", "output", "data">>)>>)

\* The output of a successful parse: the declared keys that are present.
Strip(o, keys) == [k \in (DOMAIN o \cap keys) |-> o[k]]
StripFile(f) == Strip(f, {"path", "content", "type"})
StripProject(p) ==
    [k \in (DOMAIN p \cap {"files", "description", "instructions"}) |->
        IF k = "files" THEN [i \in 1..Len(p.files) |-> StripFile(p.files[i])] ELSE p[k]]
FlatOutput(m) == [type |-> "data", data |-> StripProject(m.data)]
\* Mutant of SpanOutput: the wrapped arm's project keeps its files only.
SpanOutputFilesOnly(m) ==
    [type |-> "data",
     data |-> [output |-> [data |-> [files |-> StripProject(m.data.output.data).files]]]]

SpanOutput(m) ==
    [type |-> "data", data |-> [output |-> [data |-> StripProject(m.data.output.data)]]]

\* const schema = z.union([flat, span]); schema.safeParse(m).
\* ZodUnion returns the first option that is valid; failing that, the first
\* dirty option together with that option's issues; failing that, a single
\* invalid_union issue that holds every option's issues.
SafeParse(m) ==
    LET f == ParseFlat(m)
        s == ParseSpan(m)
    IN IF f.status = "valid" THEN [success |-> TRUE, data |-> FlatOutput(m), issues |-> <<>>]
       ELSE IF s.status = "valid" THEN [success |-> TRUE, data |-> SpanOutput(m), issues |-> <<>>]
       ELSE IF f.status = "dirty" THEN [success |-> FALSE, data |-> NULL, issues |-> f.issues]
       ELSE IF s.status = "dirty" THEN [success |-> FALSE, data |-> NULL, issues |-> s.issues]
       ELSE [success |-> FALSE, data |-> NULL,
             issues |-> <<[code |-> "invalid_union", unionErrors |-> <<f.issues, s.issues>>,
                           path |-> <<>>, message |-> "Invalid input"]>>]

---------------------------------------------------------------------------
(* getErrorSummary (page.tsx:71-87) *)

\* Mutant of getErrorSummary: no case for too_small, which falls to the default.
getErrorSummaryNoTooSmall(issues) ==
    IF issues = <<>> THEN "Unknown validation error"
    ELSE LET mainIssue == issues[1]
         IN CASE mainIssue.code = "invalid_type" ->
                    "Expected " \o mainIssue.expected \o ", got " \o mainIssue.received
              [] mainIssue.code = "invalid_literal" ->
                    "Expected \"" \o mainIssue.expected \o "\", got \"" \o mainIssue.received \o "\""
              [] mainIssue.code = "invalid_union" ->
                    "Message format doesn't match expected structure"
              [] OTHER ->
                    IF mainIssue.message # "" THEN mainIssue.message ELSE "Validation failed"

getErrorSummary(issues) ==
    IF issues = <<>> THEN "Unknown validation error"
    ELSE LET mainIssue == issues[1]
         IN CASE mainIssue.code = "invalid_type" ->
                    "Expected " \o mainIssue.expected \o ", got " \o mainIssue.received
              [] mainIssue.code = "invalid_literal" ->
                    "Expected \"" \o mainIssue.expected \o "\", got \"" \o mainIssue.received \o "\""
              [] mainIssue.code = "too_small" ->
                    "Array too small: minimum " \o ToString(mainIssue.minimum) \o " items required"
              [] mainIssue.code = "invalid_union" ->
                    "Message format doesn't match expected structure"
              [] OTHER ->
                    IF mainIssue.message # "" THEN mainIssue.message ELSE "Validation failed"

---------------------------------------------------------------------------
(* stripTS (page.tsx:53-69): twelve String.prototype.replace calls with    *)
(* global regular expressions (the rules), chained.  For each rule, an     *)
(* operator gives the position just behind the match that starts at i in *)
(* s (0 when there is none there), found as the backtracking matcher finds *)
(* it: every quantifier of these expressions is greedy and is followed by  *)
(* a character outside its class, so the longest run is the only one that  *)
(* can match.  The character at position i of s is SubSeq(s, i, i).        *)

WordChars ==
    LET w == "abcdefghijklmnopqrstuvwxyzABCDEFGHIJKLMNOPQRSTUVWXYZ0123456789_"
    IN {SubSeq(w, i, i) : i \in 1..Len(w)}

\* The character classes of the expressions: \w, \s, [A-Za-z_$], [\w$],
\* [^;], [^}], [^>] and [=,;)] with its negation.  A class is the set of
\* characters it names and whether it is negated.
Word == [neg |-> FALSE, chars |-> WordChars]
Space == [neg |-> FALSE, chars |-> {" ", "\n", "\t"}]
IdentStart ==
    [neg |-> FALSE,
     chars |-> (WordChars \ {"0", "1", "2", "3", "4", "5", "6", "7", "8", "9"}) \cup {"$"}]
IdentChar == [neg |-> FALSE, chars |-> WordChars \cup {"$"}]
NotSemicolon == [neg |-> TRUE, chars |-> {";"}]
NotCloseBrace == [neg |-> TRUE, chars |-> {"}"}]
NotGreater == [neg |-> TRUE, chars |-> {">"}]
Terminator == [neg |-> FALSE, chars |-> {"=", ",", ";", ")"}]
NotTerminator == [neg |-> TRUE, chars |-> {"=", ",", ";", ")"}]

\* Whether the character c is of a class.
In(c, class) == (c \in class.chars) # class.neg

\* Whether the literal lit stands at position i of s.
LitAt(s, i, lit) ==
    i + Len(lit) - 1 <= Len(s) /\ SubSeq(s, i, i + Len(lit) - 1) = lit

\* The position behind the longest run of characters of a class that starts at i.
Skip(s, i, class) ==
    CHOOSE j \in i..(Len(s) + 1) :
        /\ \A k \in i..(j - 1) : In(SubSeq(s, k, k), class)
        /\ (j = Len(s) + 1 \/ ~In(SubSeq(s, j, j), class))

\* /import[^;]+;?/g
ImportEnd(s, i) ==
    IF ~LitAt(s, i, "import") THEN 0
    ELSE LET a == i + Len("import")
             j == Skip(s, a, NotSemicolon)
         IN IF j = a THEN 0
            ELSE IF j <= Len(s) THEN j + 1 ELSE j

\* /export default (function|class|const)\s+(\w+)/g, one keyword at a time
ExportDefaultDeclEnd(s, i, keyword) ==
    LET lit == "export default " \o keyword
        a == i + Len(lit)
        b == Skip(s, a, Space)
        c == Skip(s, b, Word)
    IN IF LitAt(s, i, lit) /\ b > a /\ c > b THEN c ELSE 0

\* "function $1", "class $1", "const $1"
DeclReplacement(s, i, e, keyword) ==
    LET a == i + Len("export default " \o keyword)
        b == Skip(s, a, Space)
    IN keyword \o " " \o SubSeq(s, b, e - 1)

\* /export default\s+/g
ExportDefaultEnd(s, i) ==
    LET a == i + Len("export default")
        b == Skip(s, a, Space)
    IN IF LitAt(s, i, "export default") /\ b > a THEN b ELSE 0

ExportKeywords == {"const", "function", "class", "let", "var"}

\* /export (const|function|class|let|var) /g
ExportDeclEnd(s, i) ==
    IF \E k \in ExportKeywords : LitAt(s, i, "export " \o k \o " ")
    THEN i + Len("export " \o (CHOOSE k \in ExportKeywords : LitAt(s, i, "export " \o k \o " ")) \o " ")
    ELSE 0

\* "$1 "
ExportDeclRepl(s, i, e) == SubSeq(s, i + Len("export "), e - 1)

\* /export \{[^}]+\};?/g
ExportListEnd(s, i) ==
    IF ~LitAt(s, i, "export {") THEN 0
    ELSE LET a == i + Len("export {")
             j == Skip(s, a, NotCloseBrace)
         IN IF j = a \/ j > Len(s) THEN 0
            ELSE IF LitAt(s, j + 1, ";") THEN j + 2 ELSE j + 1

\* \b in front of position i
WordBoundary(s, i) ==
    LET before == i > 1 /\ In(SubSeq(s, i - 1, i - 1), Word)
        after == i <= Len(s) /\ In(SubSeq(s, i, i), Word)
    IN before # after

\* /\b([A-Za-z_$][\w$]*)<[^>]+>\s*\(/g
GenericCallEnd(s, i) ==
    IF ~(WordBoundary(s, i) /\ In(SubSeq(s, i, i), IdentStart)) THEN 0
    ELSE LET j == Skip(s, i + 1, IdentChar)
             k == Skip(s, j + 1, NotGreater)
             m == Skip(s, k + 1, Space)
         IN IF LitAt(s, j, "<") /\ k > j + 1 /\ k <= Len(s) /\ LitAt(s, m, "(")
            THEN m + 1 ELSE 0

\* "$1("
GenericCallRepl(s, i, e) == SubSeq(s, i, Skip(s, i + 1, IdentChar) - 1) \o "("

\* /interface\s+\w+\s*\{[^}]*\}/g
InterfaceEnd(s, i) ==
    LET a == i + Len("interface")
        b == Skip(s, a, Space)
        c == Skip(s, b, Word)
        d == Skip(s, c, Space)
        j == Skip(s, d + 1, NotCloseBrace)
    IN IF LitAt(s, i, "interface") /\ b > a /\ c > b /\ LitAt(s, d, "{") /\ j <= Len(s)
       THEN j + 1 ELSE 0

\* /type\s+\w+\s*=[^;]+;/g
TypeAliasEnd(s, i) ==
    LET a == i + Len("type")
        b == Skip(s, a, Space)
        c == Skip(s, b, Word)
        d == Skip(s, c, Space)
        j == Skip(s, d + 1, NotSemicolon)
    IN IF LitAt(s, i, "type") /\ b > a /\ c > b /\ LitAt(s, d, "=") /\ j > d + 1 /\ j <= Len(s)
       THEN j + 1 ELSE 0

\* (\s*\|\s*\w+)* from position p: the position behind its last repetition
RECURSIVE UnionEnd(_, _)
UnionEnd(s, p) ==
    LET q == Skip(s, p, Space)
        r == Skip(s, q + 1, Space)
        t == Skip(s, r, Word)
    IN IF LitAt(s, q, "|") /\ t > r THEN UnionEnd(s, t) ELSE p

\* /:\s*\w+(\[\])?(\s*\|\s*\w+)*\s*[=,;)]/g
AnnotationEnd(s, i) ==
    IF ~LitAt(s, i, ":") THEN 0
    ELSE LET a == Skip(s, i + 1, Space)
             b == Skip(s, a, Word)
             c == IF LitAt(s, b, "[]") THEN b + Len("[]") ELSE b
             f == Skip(s, UnionEnd(s, c), Space)
         IN IF b > a /\ f <= Len(s) /\ In(SubSeq(s, f, f), Terminator) THEN f + 1 ELSE 0

\* (match) => match.replace(/:\s*[^=,;)]+/, ""): the match starts with the
\* colon, and the first replace removes from it to the first of = , ; )
AnnotationRepl(s, i, e) ==
    LET match == SubSeq(s, i, e - 1)
        j == Skip(match, Len(":") + 1, NotTerminator)
    IN SubSeq(match, j, Len(match))

\* /['"]use\s+(?:client|server)['"];?\s*/g
DirectiveEnd(s, i) ==
    LET a == i + Len("'use")
        b == Skip(s, a, Space)
        c == IF LitAt(s, b, "client") THEN b + Len("client")
             ELSE IF LitAt(s, b, "server") THEN b + Len("server") ELSE 0
        d == IF LitAt(s, c + 1, ";") THEN c + 2 ELSE c + 1
    IN IF /\ (LitAt(s, i, "'use") \/ LitAt(s, i, "\"use"))
          /\ b > a /\ c > 0
          /\ (LitAt(s, c, "'") \/ LitAt(s, c, "\""))
       THEN Skip(s, d, Space) ELSE 0

\* The position behind the match of a rule's expression that starts at i.
MatchEnd(rule, s, i) ==
    CASE rule = "import" -> ImportEnd(s, i)
      [] rule = "exportDefaultFunction" -> ExportDefaultDeclEnd(s, i, "function")
      [] rule = "exportDefaultClass" -> ExportDefaultDeclEnd(s, i, "class")
      [] rule = "exportDefaultConst" -> ExportDefaultDeclEnd(s, i, "const")
      [] rule = "exportDefault" -> ExportDefaultEnd(s, i)
      [] rule = "exportDecl" -> ExportDeclEnd(s, i)
      [] rule = "exportList" -> ExportListEnd(s, i)
      [] rule = "genericCall" -> GenericCallEnd(s, i)
      [] rule = "interface" -> InterfaceEnd(s, i)
      [] rule = "typeAlias" -> TypeAliasEnd(s, i)
      [] rule = "annotation" -> AnnotationEnd(s, i)
      [] rule = "directive" -> DirectiveEnd(s, i)

\* What a rule puts in place of its match s[i..e-1]: the second argument of
\* its replace call.
Replacement(rule, s, i, e) ==
    CASE rule = "exportDefaultFunction" -> DeclReplacement(s, i, e, "function")
      [] rule = "exportDefaultClass" -> DeclReplacement(s, i, e, "class")
      [] rule = "exportDefaultConst" -> DeclReplacement(s, i, e, "const")
      [] rule = "exportDecl" -> ExportDeclRepl(s, i, e)
      [] rule = "genericCall" -> GenericCallRepl(s, i, e)
      [] rule = "annotation" -> AnnotationRepl(s, i, e)
      [] OTHER -> ""

\* s.replace(re, f) for the global expression of a rule: the matches are
\* taken from left to right, each search starting behind the previous match,
\* and the text between the matches is kept.
Replace(s, rule) ==
    LET Matches(i) == MatchEnd(rule, s, i) > i
        RECURSIVE From(_)
        From(i) ==
            IF \A k \in i..Len(s) : ~Matches(k) THEN SubSeq(s, i, Len(s))
            ELSE LET m == CHOOSE k \in i..Len(s) : Matches(k) /\ \A h \in i..(k - 1) : ~Matches(h)
                     e == MatchEnd(rule, s, m)
                 IN SubSeq(s, i, m - 1) \o Replacement(rule, s, m, e) \o From(e)
    IN From(1)

\* The rules in the order of the chain: line 56, lines 57-62, line 64,
\* lines 65-67 and line 69.
ImportRules == <<"import">>
ExportRules ==
    <<"exportDefaultFunction", "exportDefaultClass", "exportDefaultConst",
      "exportDefault", "exportDecl", "exportList">>
GenericRules == <<"genericCall">>
TypeRules == <<"interface", "typeAlias", "annotation">>
DirectiveRules == <<"directive">>

\* code.replace(...).replace(...)...: each rule runs on the result of the one before it.
RECURSIVE Chain(_, _)
Chain(rules, code) ==
    IF rules = <<>> THEN code
    ELSE Chain(Tail(rules), Replace(code, Head(rules)))

\* lines 53-69
stripTS(code) ==
    Chain(ImportRules \o ExportRules \o GenericRules \o TypeRules \o DirectiveRules, code)

---------------------------------------------------------------------------
(* buildPreview (page.tsx:146-347).  A document is a record: the empty     *)
(* string is kind "empty"; the diagnostic of lines 164-169 is kind         *)
(* "noComponents" with the text of its "Available files" paragraph; the    *)
(* scaffold of lines 197-342 is kind "app" with the stylesheet text and    *)
(* the script text (userJs) it inlines; the document of line 345 is kind   *)
(* "buildError".                                                           *)

IsCssFile(f) ==
    \/ f.type = "style"
    \/ Includes(f.path, "globals.css")
    \/ Includes(f.path, "styles.css")
    \/ EndsWith(f.path, ".css")

\* /\.(t|j)sx?$/.test(f.path)
IsJsFile(f) ==
    \E ext \in {".ts", ".tsx", ".js", ".jsx"} : EndsWith(f.path, ext)

Paths(files) == [i \in 1..Len(files) |-> files[i].path]
Contents(files) == [i \in 1..Len(files) |-> files[i].content]

\* Mutant of NoComponentsDoc: the script files (none) are listed, not all files.
NoComponentsDocListsScripts(p) ==
    [kind |-> "noComponents", heading |-> "No React Components Found",
     available |-> "Available files: " \o Join(Paths(SelectSeq(p.files, IsJsFile)), ", ")]

\* lines 164-169
NoComponentsDoc(p) ==
    [kind |-> "noComponents", heading |-> "No React Components Found",
     available |-> "Available files: " \o Join(Paths(p.files), ", ")]

\* Whether stripTS(f.content) throws (line 176), and whether a statement of
\* the outer try block other than that call throws (lines 149-342).  Every
\* value these statements touch is a string or an array of a validated
\* project, and filter, map, join, includes, endsWith, test and replace are
\* total on those, so no statement throws by itself: an exception is a fault
\* that the environment injects (fault), and Spec injects none.  Were content
\* undefined, code.replace would throw a TypeError.
StripThrows(f) == f.path \in fault.strip \/ ~Has(f, "content")
BuildThrows(p) == fault.build

\* lines 174-180: one script file's part of userJs; ${err} reads "Error".
ScriptPart(f) ==
    IF StripThrows(f) THEN "// Error processing " \o f.path \o ": Error"
    ELSE "// File: " \o f.path \o "\n" \o stripTS(f.content)

\* lines 172-342
AppDoc(p) ==
    LET cssFiles == SelectSeq(p.files, IsCssFile)
        jsFiles == SelectSeq(p.files, IsJsFile)
    IN [kind |-> "app", css |-> Join(Contents(cssFiles), "\n"),
        userJs |-> Join([i \in 1..Len(jsFiles) |-> ScriptPart(jsFiles[i])], "\n\n")]

\* Mutant of buildPreview: no try/catch around the stripping of one file, so
\* an exception there reaches the outer catch.
buildPreviewWithoutInnerCatch(p) ==
    IF p = NULL THEN [html |-> [kind |-> "empty"], error |-> NULL]
    ELSE IF BuildThrows(p) \/ \E i \in 1..Len(p.files) : StripThrows(p.files[i])
         THEN [html |-> [kind |-> "buildError"],
               error |-> [message |-> "Failed to build preview"]]
    ELSE IF SelectSeq(p.files, IsJsFile) = <<>>
         THEN [html |-> NoComponentsDoc(p), error |-> NULL]
    ELSE [html |-> AppDoc(p), error |-> NULL]

\* The value buildPreview returns, and the value it passes to setPreviewError
\* (NULL when it does not call it).
buildPreview(p) ==
    IF p = NULL THEN [html |-> [kind |-> "empty"], error |-> NULL]
    ELSE IF BuildThrows(p)
         THEN [html |-> [kind |-> "buildError"],
               error |-> [message |-> "Failed to build preview"]]
    ELSE IF SelectSeq(p.files, IsJsFile) = <<>>
         THEN [html |-> NoComponentsDoc(p), error |-> NULL]
    ELSE [html |-> AppDoc(p), error |-> NULL]

---------------------------------------------------------------------------
(* The selection effect (page.tsx:355-380). *)

Priorities(f) ==
    <<f.path = "app/page.tsx",
      f.path = "src/App.tsx",
      f.path = "App.tsx",
      Includes(f.path, "page.") /\ Includes(f.path, ".tsx"),
      Includes(f.path, "App.") /\ Includes(f.path, ".tsx"),
      Includes(f.path, "index.") /\ Includes(f.path, ".tsx"),
      EndsWith(f.path, ".tsx"),
      EndsWith(f.path, ".jsx")>>

NumPriorities == 8

\* proj.files.find(priority): the first file that satisfies priority k, or 0
FindByPriority(files, k) ==
    LET hits == {i \in 1..Len(files) : Priorities(files[i])[k]}
    IN IF hits = {} THEN 0 ELSE CHOOSE i \in hits : \A j \in hits : i <= j

SmartSelect(p) ==
    LET ks == {k \in 1..NumPriorities : FindByPriority(p.files, k) # 0}
    IN IF ks = {} THEN p.files[1]
       ELSE p.files[FindByPriority(p.files, CHOOSE k \in ks : \A j \in ks : k <= j)]

---------------------------------------------------------------------------
(* The payloads the parent window posts. *)

FApp == [path |-> "App.tsx", content |-> "A", type |-> "component"]
FCss == [path |-> "styles.css", content |-> "c", type |-> "style"]
FDoc == [path |-> "README.md", content |-> "", type |-> "doc"]
FExtra == [path |-> "lib/util.js", content |-> "u", type |-> "lib", size |-> "7"]
FNoPath == [content |-> "A", type |-> "component"]
FNoContent == [path |-> "App.tsx", type |-> "component"]
FNoType == [path |-> "App.tsx", content |-> "A"]
FEmptyPath == [path |-> "", content |-> "A", type |-> "component"]
FEmptyType == [path |-> "App.tsx", content |-> "A", type |-> ""]

PApp == [files |-> <<FApp, FCss>>, description |-> "demo"]
PDocs == [files |-> <<FDoc, FCss>>, instructions |-> "read"]
PExtraFile == [files |-> <<FExtra>>]
PExtraKey == [files |-> <<FCss>>, version |-> "2"]
PNoFiles == [description |-> "demo"]
PNoFilesList == [files |-> <<>>]
PNoPath == [files |-> <<FApp, FNoPath>>]
PNoContent == [files |-> <<FNoContent>>]
PNoType == [files |-> <<FNoType, FCss>>]
PEmptyPath == [files |-> <<FEmptyPath>>]
PEmptyType == [files |-> <<FApp, FEmptyType>>]

Projects ==
    {PApp, PDocs, PExtraFile, PExtraKey, PNoFiles, PNoFilesList, PNoPath, PNoContent,
     PNoType, PEmptyPath, PEmptyType}

FlatEnvelope(p) == [type |-> "data", data |-> p]
WrappedEnvelope(p) == [type |-> "data", data |-> [output |-> [data |-> p]]]

\* Envelopes that are neither form, or a form with undeclared keys added.
OtherPayloads ==
    {[type |-> "result", data |-> PApp],
     [data |-> PApp],
     [type |-> "data"],
     [type |-> "data", data |-> [output |-> [status |-> "ok"]]],
     [type |-> "data", data |-> PApp, id |-> "42"],
     [type |-> "data", data |-> [output |-> [data |-> PDocs, cost |-> "1"], span |-> "s"]],
     [type |-> "data", data |-> [files |-> <<>>, output |-> [data |-> PApp]]],
     [type |-> "data", data |-> [files |-> <<FDoc>>, output |-> [data |-> PApp]]]}

Payloads ==
    {FlatEnvelope(p) : p \in Projects} \cup {WrappedEnvelope(p) : p \in Projects}
        \cup OtherPayloads

Origins == {"https://parent.example"}

SchemaEvents == [origin : Origins, data : Payloads]

\* The payloads of a session: accepted ones of both forms, rejected ones of
\* both forms, and one that carries a project in both places.
SessionPayloads ==
    {FlatEnvelope(PApp), WrappedEnvelope(PDocs),
     FlatEnvelope(PNoFilesList), WrappedEnvelope(PEmptyPath),
     [type |-> "result", data |-> PApp],
     [type |-> "data", data |-> [files |-> <<>>, output |-> [data |-> PApp]]]}

Events == [origin : Origins, data : SessionPayloads]

\* The payloads of a burst that overflows the rejection log.
LogPayloads ==
    {FlatEnvelope(PNoFilesList), [type |-> "result", data |-> PApp], FlatEnvelope(PApp)}

LogEvents == [origin : Origins, data : LogPayloads]

\* A project with two script files, and the payloads of a session in which
\* statements of the builder throw.
FUtil == [path |-> "lib/util.ts", content |-> "export const u: number = 1;", type |-> "lib"]
PScripts == [files |-> <<FApp, FUtil, FCss>>]
FaultPayloads ==
    {FlatEnvelope(PScripts), WrappedEnvelope(PDocs), [type |-> "result", data |-> PApp]}
FaultEvents == [origin : Origins, data : FaultPayloads]
\* What the environment may make throw: the outer try block, and the
\* stripping of any of the script files.
Faults == [build : BOOLEAN, strip : SUBSET {FApp.path, FUtil.path}]

---------------------------------------------------------------------------
(* The component's state after its first render (page.tsx:93-106). *)

PageInit ==
    /\ proj = NULL
    /\ selected = NULL
    /\ tab = "preview"
    /\ html = [kind |-> "empty"]
    /\ rej = <<>>
    /\ banner = FALSE
    /\ previewError = NULL
    /\ status = [listening |-> TRUE, messagesReceived |-> 0, lastMessageTime |-> NULL,
                 validMessages |-> 0, rejectedMessages |-> 0]
    /\ timers = <<>>
    /\ now = 0
    /\ lastEvt = NoEvent

\* No statement of the builder throws, no preview script has run, and no text
\* is being stripped.
Init ==
    /\ PageInit
    /\ fault = NoFault
    /\ frame = NoFrame
    /\ src = NoSource

---------------------------------------------------------------------------
(* The effects (page.tsx:349-380).  React runs them after the render that  *)
(* a handler's state updates cause and before the next event is handled,   *)
(* so each action below ends with them.                                    *)

\* useEffect(() => { if (proj && tab === "preview") setHtml(buildPreview()) }, [proj, tab])
\* depsChanged: whether this render's proj or tab differs from the last render's.
BuildRuns(depsChanged, projNew, tabNew) ==
    depsChanged /\ projNew # NULL /\ tabNew = "preview"

HtmlAfter(depsChanged, projNew, tabNew) ==
    IF BuildRuns(depsChanged, projNew, tabNew) THEN buildPreview(projNew).html ELSE html

\* errSet: the preview error as the handler left it.
PreviewErrorAfter(depsChanged, projNew, tabNew, errSet) ==
    IF BuildRuns(depsChanged, projNew, tabNew) /\ buildPreview(projNew).error # NULL
    THEN buildPreview(projNew).error
    ELSE errSet

\* useEffect(() => { if (proj && !selected) { ... setSelected(selectedFile) } }, [proj, selected])
SelectedAfter(projNew, selNew) ==
    IF projNew # NULL /\ selNew = NULL THEN SmartSelect(projNew) ELSE selNew

---------------------------------------------------------------------------
(* The message listener (page.tsx:110-139). *)

\* lines 111-115
CountReceived(prev, t) ==
    [prev EXCEPT !.messagesReceived = @ + 1, !.lastMessageTime = t]

\* lines 119-126
RejectedMsg(e, parsed, t) ==
    [id |-> ToString(t), time |-> t, origin |-> e.origin, msg |-> e.data,
     issues |-> parsed.issues, summary |-> getErrorSummary(parsed.issues)]

\* Mutant of PushRejected: slice(0, 10), one entry too many.
PushRejectedKeepsTen(rejectedMsg, p) ==
    <<rejectedMsg>> \o SubSeq(p, 1, Min(KeepRejected + 1, Len(p)))

\* line 128: [rejectedMsg, ...p.slice(0, 9)]
PushRejected(rejectedMsg, p) ==
    <<rejectedMsg>> \o SubSeq(p, 1, Min(KeepRejected, Len(p)))

\* line 129
CountRejected(prev) == [prev EXCEPT !.rejectedMessages = @ + 1]

\* line 131: setTimeout(() => setBanner(false), 10000)
ScheduleDismiss(pending, t) == Append(pending, t + BannerDelay)

\* Mutant of ProjAfterReject: a rejection clears the held project.
ProjClearedOnReject(prev) == NULL

\* lines 118-133: the rejection branch returns without a call of setProj
ProjAfterReject(prev) == prev

\* line 135
ExtractData(d) == IF Has(d, "files") THEN d ELSE d.output.data

\* Mutant of NextProject: the new files are merged into the held project.
MergedProject(prev, data) ==
    IF prev = NULL THEN data ELSE [data EXCEPT !.files = prev.files \o data.files]

\* line 136: setProj(data)
NextProject(prev, data) == data

\* Mutant of CountValid: the wrong counter is incremented.
CountValidAsReceived(prev) == [prev EXCEPT !.messagesReceived = @ + 1]

\* line 137
CountValid(prev) == [prev EXCEPT !.validMessages = @ + 1]

Listener(e) ==
    LET parsed == SafeParse(e.data)
        received == CountReceived(status, now)
    IN /\ lastEvt' = [seq |-> lastEvt.seq + 1, origin |-> e.origin, data |-> e.data]
       /\ IF ~parsed.success
          THEN /\ rej' = PushRejected(RejectedMsg(e, parsed, now), rej)
               /\ status' = CountRejected(received)
               /\ banner' = TRUE
               /\ timers' = ScheduleDismiss(timers, now)
               /\ proj' = ProjAfterReject(proj)
               /\ selected' = SelectedAfter(proj', selected)
               /\ UNCHANGED <<previewError, html>>
          ELSE LET data == ExtractData(parsed.data.data)
               IN /\ proj' = NextProject(proj, data)
                  /\ status' = CountValid(received)
                  /\ html' = HtmlAfter(TRUE, proj', tab)
                  /\ previewError' = PreviewErrorAfter(TRUE, proj', tab, NULL)
                  /\ selected' = SelectedAfter(proj', selected)
                  /\ UNCHANGED <<rej, banner, timers>>
       /\ UNCHANGED <<tab, now, fault, frame, src>>

\* The callback of line 131, run when its delay has elapsed.
DismissBanner ==
    /\ timers # <<>>
    /\ Head(timers) <= now
    /\ banner' = FALSE
    /\ timers' = Tail(timers)
    /\ UNCHANGED <<proj, selected, tab, html, rej, previewError, status, now, lastEvt>>
    /\ UNCHANGED <<fault, frame, src>>

\* onClick={() => setTab(t)} (page.tsx:536-541); the tabs exist only in the main UI.
SetTab(t) ==
    /\ proj # NULL
    /\ tab' = t
    /\ html' = HtmlAfter(t # tab, proj, t)
    /\ previewError' = PreviewErrorAfter(t # tab, proj, t, previewError)
    /\ UNCHANGED <<proj, selected, rej, banner, status, timers, now, lastEvt>>
    /\ UNCHANGED <<fault, frame, src>>

\* onFileSelect={setSelected} (page.tsx:584) from a click on a file row of the
\* explorer (part_001:70); of files that share a path the tree keeps the last.
\* A row inside a collapsed folder is reached by expanding the folder first,
\* which changes only the explorer's own expandedFolders state.
SelectFile(i) ==
    /\ proj # NULL
    /\ tab = "files"
    /\ \A j \in (i + 1)..Len(proj.files) : proj.files[j].path # proj.files[i].path
    /\ selected' = proj.files[i]
    /\ UNCHANGED <<proj, tab, html, rej, banner, previewError, status, timers, now, lastEvt>>
    /\ UNCHANGED <<fault, frame, src>>

\* Time passes.  A callback that is due runs before more time passes.
Tick ==
    /\ now < MaxTime
    /\ \A i \in 1..Len(timers) : timers[i] > now
    /\ now' = now + TickStep
    /\ UNCHANGED <<proj, selected, tab, html, rej, banner, previewError, status, timers, lastEvt>>
    /\ UNCHANGED <<fault, frame, src>>

\* The rows of the explorer.
FileRows == IF proj = NULL THEN {} ELSE 1..Len(proj.files)

Receive == \E e \in Events : lastEvt.seq < MaxMsgs /\ Listener(e)

ReceiveAny == \E e \in SchemaEvents : lastEvt.seq < MaxSchemaMsgs /\ Listener(e)

ReceiveBurst == \E e \in LogEvents : lastEvt.seq < MaxLogMsgs /\ Listener(e)

Next ==
    \/ Receive
    \/ DismissBanner
    \/ \E t \in {"preview", "files", "info"} : SetTab(t)
    \/ \E i \in FileRows : SelectFile(i)
    \/ Tick

Spec == Init /\ [][Next]_vars

\* Every payload of the pool, two messages deep, with no click and no tick in between.
NextSchema == ReceiveAny

SpecSchema == Init /\ [][NextSchema]_vars

\* A burst of messages inside one clock tick, with no click in between.
NextLog == ReceiveBurst

SpecLog == Init /\ [][NextLog]_vars

\* The environment changes which statements of the builder throw.
InjectFault(f) ==
    /\ fault # f
    /\ fault' = f
    /\ UNCHANGED <<frame, src>>
    /\ UNCHANGED pageVars

ReceiveFaulty == \E e \in FaultEvents : lastEvt.seq < MaxFaultMsgs /\ Listener(e)

\* A session in which the builder's statements may throw.
NextFaults ==
    \/ ReceiveFaulty
    \/ \E f \in Faults : InjectFault(f)
    \/ \E t \in {"preview", "files"} : SetTab(t)

SpecFaults == Init /\ [][NextFaults]_vars

---------------------------------------------------------------------------
(* Texts under stripTS: concatenations of fragments of source text. *)

Fragments ==
    {"import a from 'b'\n",
     "import c from 'd';\n",
     "export ",
     "export default ",
     "const x = 1;\n",
     "function App(){ return 1; }\n",
     "class B {}\n",
     "interface P { a: { b: number } }\n",
     "export type T = string;",
     "let f = (a: string, b: number[] | null) => a;\n",
     "'use client';\n",
     "useState<number>(0);\n",
     "export { x };\n"}

RECURSIVE Concat(_)
Concat(parts) == IF parts = <<>> THEN "" ELSE parts[1] \o Concat(Tail(parts))

Inputs == {Concat(parts) : parts \in UNION {[1..n -> Fragments] : n \in 0..MaxFragments}}

InitStrip ==
    /\ PageInit
    /\ fault = NoFault
    /\ frame = NoFrame
    /\ \E s \in Inputs : src = [passes |-> 0, input |-> s, text |-> s]

\* stripTS runs on the text it produced last.
StripPass ==
    /\ src.passes < MaxPasses
    /\ src' = [src EXCEPT !.passes = @ + 1, !.text = stripTS(@)]
    /\ UNCHANGED <<fault, frame>>
    /\ UNCHANGED pageVars

NextStrip == StripPass

SpecStrip == InitStrip /\ [][NextStrip]_vars

---------------------------------------------------------------------------
(* The script of the preview document (page.tsx:240-341), which the iframe *)
(* runs after the user's scripts.  The iframe's global object is a tuple   *)
(* of its own properties in Object.getOwnPropertyNames order; a property   *)
(* is a record of its name and of whether typeof gives 'function' for its  *)
(* value.  Which properties the user's scripts and the browser leave on    *)
(* the global object is an input of the script.                            *)

\* Properties in one global object of SpecSandbox.
MaxGlobals == 3

\* lines 248-251
candidates ==
    <<"App", "HomePage", "Home", "Page", "Main", "Root", "Index",
      "Dashboard", "Layout", "Component", "MyComponent">>

LowerCase == "abcdefghijklmnopqrstuvwxyz"
UpperCase == "ABCDEFGHIJKLMNOPQRSTUVWXYZ"

\* The character of s at position i (1-based), as a string.
CharAt(s, i) == SubSeq(s, i, i)

\* String.prototype.toUpperCase, on one character of the model's alphabet:
\* a lower-case letter becomes its capital, any other character is unchanged.
toUpperCase(c) ==
    IF \E i \in 1..Len(LowerCase) : CharAt(LowerCase, i) = c
    THEN CharAt(UpperCase, CHOOSE i \in 1..Len(LowerCase) : CharAt(LowerCase, i) = c)
    ELSE c

\* typeof window[name] === 'function'
IsFunction(window, name) ==
    \E i \in 1..Len(window) : window[i].name = name /\ window[i].callable

\* Object.getOwnPropertyNames(window)
getOwnPropertyNames(window) == [i \in 1..Len(window) |-> window[i].name]

\* Mutant of findRootComponent: the candidates are tried in the order in
\* which the global object holds them.
findRootComponentInDefinitionOrder(window) ==
    LET IsCandidate(name) ==
            IsFunction(window, name) /\ \E i \in 1..Len(candidates) : candidates[i] = name
        found == SelectSeq(getOwnPropertyNames(window), IsCandidate)
    IN IF found # <<>> THEN [function |-> found[1]] ELSE NULL

\* lines 246-271.  The function returned is named by the property it is read from.
findRootComponent(window) ==
    LET IsBound(name) == IsFunction(window, name)
        IsComponentName(name) ==
            /\ IsFunction(window, name)
            /\ CharAt(name, 1) = toUpperCase(CharAt(name, 1))
            /\ name # "Component"
            /\ name # "PureComponent"
        bound == SelectSeq(candidates, IsBound)
        componentNames == SelectSeq(getOwnPropertyNames(window), IsComponentName)
    IN IF bound # <<>> THEN [function |-> bound[1]]
       ELSE IF componentNames # <<>> THEN [function |-> componentNames[1]]
       ELSE NULL

\* lines 275-301: the panel rendered when no root component is found.
DiagnosticPanel(window) ==
    LET IsBound(name) == IsFunction(window, name)
        allFunctions == SelectSeq(getOwnPropertyNames(window), IsBound)
    IN [heading |-> "No Root Component Detected",
        count |-> Len(allFunctions),
        functions |-> IF Join(allFunctions, ", ") = "" THEN "None found"
                      ELSE Join(allFunctions, ", ")]

\* lines 273-335: what the script renders into #root.
RenderRoot(window) ==
    LET RootComponent == findRootComponent(window)
    IN [ran |-> TRUE, window |-> window, root |-> RootComponent,
        panel |-> IF RootComponent = NULL THEN DiagnosticPanel(window) ELSE NULL]

\* The properties a global object of the model may hold.
Globals ==
    {[name |-> n, callable |-> TRUE] :
        n \in {"App", "HomePage", "Dashboard", "Component", "PureComponent",
               "Widget", "helper", "_helper"}}
    \cup {[name |-> n, callable |-> FALSE] : n \in {"App", "Widget"}}

\* The global objects: up to MaxGlobals properties with different names, in any order.
Windows ==
    {w \in UNION {[1..n -> Globals] : n \in 0..MaxGlobals} :
        \A i, j \in 1..Len(w) : i # j => w[i].name # w[j].name}

\* The iframe has loaded a document whose scripts left some global object behind.
InitSandbox ==
    /\ PageInit
    /\ fault = NoFault
    /\ src = NoSource
    /\ \E w \in Windows : frame = [ran |-> FALSE, window |-> w]

\* The script of lines 240-341 runs.
RunPreviewScript ==
    /\ ~frame.ran
    /\ frame' = RenderRoot(frame.window)
    /\ UNCHANGED <<fault, src>>
    /\ UNCHANGED pageVars

NextSandbox == RunPreviewScript

SpecSandbox == InitSandbox /\ [][NextSandbox]_vars

---------------------------------------------------------------------------
(* The data model of spec.md section 3, stated on payloads: what a         *)
(* ProjectFile and a Project are, the two envelope forms, and the Project  *)
(* an envelope normalizes to.  The properties below compare the program's  *)
(* state with these.                                                       *)

IsProjectFile(f) ==
    /\ Has(f, "path") /\ f.path # ""
    /\ Has(f, "content")
    /\ Has(f, "type") /\ f.type # ""

IsProject(p) ==
    /\ Has(p, "files")
    /\ p.files # <<>>
    /\ \A i \in 1..Len(p.files) : IsProjectFile(p.files[i])

HasDataTag(m) == Has(m, "type") /\ m.type = "data"

MatchesFlat(m) == HasDataTag(m) /\ Has(m, "data") /\ IsProject(m.data)

MatchesWrapped(m) ==
    /\ HasDataTag(m) /\ Has(m, "data")
    /\ Has(m.data, "output") /\ Has(m.data.output, "data")
    /\ IsProject(m.data.output.data)

DeclaredFile(f) == [path |-> f.path, content |-> f.content, type |-> f.type]

DeclaredProject(p) ==
    LET files == [files |-> [i \in 1..Len(p.files) |-> DeclaredFile(p.files[i])]]
        descr == IF Has(p, "description") THEN [description |-> p.description] ELSE <<>>
        instr == IF Has(p, "instructions") THEN [instructions |-> p.instructions] ELSE <<>>
    IN files @@ descr @@ instr

ExpectedProject(m) ==
    IF MatchesFlat(m) THEN DeclaredProject(m.data) ELSE DeclaredProject(m.data.output.data)

\* A step in which the listener handled one more event.
MessageStep == lastEvt'.seq = lastEvt.seq + 1
\* The payload of the event handled in a message step, and of the latest event.
Msg == lastEvt'.data
Accepted(m) == SafeParse(m).success

---------------------------------------------------------------------------
\* C1: in every step that handles a message, an accepted message makes the
\* held project exactly the normalized Project of that message (nothing of
\* the project held before survives), a rejected message leaves the held
\* project as it was, and no other step changes it; initially no project is
\* held.  Hence the held project is always that of the latest accepted message.
C1_HeldProjectIsLatestAccepted ==
    /\ proj = NULL
    /\ [][IF MessageStep /\ Accepted(Msg) THEN proj' = ExpectedProject(Msg)
                                            ELSE proj' = proj]_vars

\* Two projects were accepted, the second replaced the first, and a rejected
\* message followed.
C1_Witness ==
    /\ status.validMessages = 2
    /\ status.rejectedMessages = 1
    /\ ~Accepted(lastEvt.data)
    /\ proj = DeclaredProject(PDocs)

\* C2: the rejection log never holds more than 10 entries; a rejection puts
\* its entry first and keeps the first 9 of the earlier entries behind it in
\* their order (so the 10th, the oldest, is dropped); no other step changes
\* the log.
C2_RejectionLogBounded ==
    /\ [](Len(rej) <= 10)
    /\ [][IF MessageStep /\ ~Accepted(Msg)
          THEN /\ Len(rej') = Min(Len(rej) + 1, 10)
               /\ rej'[1].msg = Msg
               /\ \A i \in 2..Len(rej') : rej'[i] = rej[i - 1]
          ELSE rej' = rej]_vars

\* The log is full, an eleventh rejection has been logged, and the entries
\* are not all alike.
C2_Witness ==
    /\ Len(rej) = 10
    /\ status.rejectedMessages >= 11
    /\ rej[1].msg # rej[2].msg
    /\ rej[9].msg # rej[10].msg

\* What the state shows of a message step that accepted, and of one that
\* rejected and logged, the message.
AcceptedStep ==
    /\ status'.validMessages = status.validMessages + 1
    /\ status'.rejectedMessages = status.rejectedMessages
    /\ rej' = rej

RejectedStep ==
    /\ status'.rejectedMessages = status.rejectedMessages + 1
    /\ status'.validMessages = status.validMessages
    /\ rej' # <<>>
    /\ rej'[1].msg = Msg
    /\ rej'[1].issues # <<>>
    /\ proj' = proj

\* C3: for every valid Project P of the pool, the flat envelope of P and the
\* wrapped envelope of P are both accepted, and after either the held
\* project is the same value, P with its declared fields.
C3_ShapeInvariance ==
    [][MessageStep =>
        \A p \in Projects :
            IsProject(p) /\ Msg \in {FlatEnvelope(p), WrappedEnvelope(p)}
                => AcceptedStep /\ proj' = DeclaredProject(p)]_vars

\* A flat and then a wrapped envelope were accepted; the wrapped one's
\* project is held.
C3_Witness ==
    /\ lastEvt.seq = 2
    /\ status.validMessages = 2
    /\ lastEvt.data = WrappedEnvelope(PApp)
    /\ proj = DeclaredProject(PApp)

\* The project an envelope carries: data when data has files or holds no
\* output.data, else data.output.data.
CarriedProject(m) ==
    IF Has(m.data, "files") \/ ~(Has(m.data, "output") /\ Has(m.data.output, "data"))
    THEN m.data
    ELSE m.data.output.data

FilesDefect(p) ==
    \/ ~Has(p, "files")
    \/ p.files = <<>>
    \/ \E i \in 1..Len(p.files) :
           ~(Has(p.files[i], "path") /\ Has(p.files[i], "content") /\ Has(p.files[i], "type"))

DefectivePayload(m) == ~Has(m, "data") \/ FilesDefect(CarriedProject(m))

\* C4, as claimed: every payload whose files is missing, is empty, or holds a
\* file without path, content or type is rejected with at least one issue,
\* counted and logged, and the held project stays.
C4_Original ==
    [][MessageStep /\ DefectivePayload(Msg) => RejectedStep]_vars

\* C4, amended: the same, for every such payload that does not also hold a
\* valid Project under data.output.data (which the wrapped arm accepts).
C4_DefectiveFilesRejected ==
    [][MessageStep /\ DefectivePayload(Msg) /\ ~MatchesWrapped(Msg) => RejectedStep]_vars

\* A wrapped envelope whose first file has no type was rejected while a
\* project was held.
C4_Witness ==
    /\ proj # NULL
    /\ lastEvt.seq = 2
    /\ lastEvt.data = WrappedEnvelope(PNoType)
    /\ rej # <<>>
    /\ rej[1].msg = lastEvt.data

\* C5: the message {type: "data", data: {files: []}} is logged as a rejection
\* whose issues include one of kind too_small, whose first issue is that
\* issue with minimum 1, and whose summary is the too-small sentence with
\* that minimum; the held project stays.
C5_EmptyFilesRejection ==
    [][MessageStep /\ Msg = FlatEnvelope(PNoFilesList) =>
        /\ RejectedStep
        /\ \E i \in 1..Len(rej'[1].issues) : rej'[1].issues[i].code = "too_small"
        /\ rej'[1].issues[1].code = "too_small"
        /\ rej'[1].issues[1].minimum = 1
        /\ rej'[1].summary = "Array too small: minimum 1 items required"]_vars

\* The empty-files message was rejected while a project was held.
C5_Witness ==
    /\ proj # NULL
    /\ lastEvt.data = FlatEnvelope(PNoFilesList)
    /\ rej # <<>>
    /\ rej[1].msg = lastEvt.data
    /\ rej[1].summary = "Array too small: minimum 1 items required"

\* An envelope that matches a form and holds no key the form does not declare.
ExactProject(p) ==
    /\ DOMAIN p \subseteq {"files", "description", "instructions"}
    /\ \A i \in 1..Len(p.files) : DOMAIN p.files[i] = {"path", "content", "type"}

ExactFlat(m) ==
    MatchesFlat(m) /\ DOMAIN m = {"type", "data"} /\ ExactProject(m.data)

ExactWrapped(m) ==
    /\ MatchesWrapped(m)
    /\ DOMAIN m = {"type", "data"}
    /\ DOMAIN m.data = {"output"}
    /\ DOMAIN m.data.output = {"data"}
    /\ ExactProject(m.data.output.data)

\* C6, as claimed: a message is accepted if and only if it is exactly an
\* envelope of one of the two forms, with no undeclared key on a file, on the
\* project or on the envelope.
C6_Original ==
    [][MessageStep => (AcceptedStep <=> ExactFlat(Msg) \/ ExactWrapped(Msg))]_vars

\* C6, amended: a message is accepted if and only if its declared keys match
\* the flat or the wrapped form (undeclared keys are ignored and dropped from
\* the project that is stored); a missing required key, an empty path, an
\* empty type or a type other than "data" makes it a rejection.
C6_AcceptedIffMatchesForm ==
    [][MessageStep =>
        IF MatchesFlat(Msg) \/ MatchesWrapped(Msg)
        THEN AcceptedStep /\ proj' = ExpectedProject(Msg)
        ELSE RejectedStep]_vars

\* An envelope with an undeclared key was accepted, and a file with an empty
\* type had been rejected before it.
C6_Witness ==
    /\ lastEvt.seq = 2
    /\ lastEvt.data = [type |-> "data", data |-> PApp, id |-> "42"]
    /\ proj = DeclaredProject(PApp)
    /\ rej # <<>>
    /\ rej[1].msg = FlatEnvelope(PEmptyType)

\* C7: a held project is never dropped by any step, and the step that first
\* holds one is the handling of the first accepted message.
C7_IdleToActiveOnce ==
    [][/\ proj # NULL => proj' # NULL
       /\ proj = NULL /\ proj' # NULL =>
            /\ MessageStep /\ Accepted(Msg)
            /\ status.validMessages = 0 /\ status'.validMessages = 1]_vars

\* Active, after a rejection, a dismissed banner, a tab switch and a click on
\* a file other than the one selected automatically.
C7_Witness ==
    /\ proj # NULL
    /\ status.rejectedMessages >= 1
    /\ ~Accepted(lastEvt.data)
    /\ banner = FALSE
    /\ tab = "files"
    /\ selected # SmartSelect(proj)

\* C8, as claimed: from a rejection until 10 seconds after it the banner is
\* visible, whatever happens in between.
C8_BannerVisibleForItsWindow ==
    rej # <<>> /\ now < rej[1].time + BannerDelay => banner

\* C9: total = valid + rejected in every state; handling an accepted message
\* adds 1 to total and valid only, handling a rejected one adds 1 to total
\* and rejected only, and no other step changes a counter.
C9_CountersAddUp ==
    /\ [](status.messagesReceived = status.validMessages + status.rejectedMessages)
    /\ [][LET dTotal == status'.messagesReceived - status.messagesReceived
              dValid == status'.validMessages - status.validMessages
              dRejected == status'.rejectedMessages - status.rejectedMessages
          IN IF ~MessageStep THEN dTotal = 0 /\ dValid = 0 /\ dRejected = 0
             ELSE IF Accepted(Msg) THEN dTotal = 1 /\ dValid = 1 /\ dRejected = 0
             ELSE dTotal = 1 /\ dValid = 0 /\ dRejected = 1]_vars

\* Three messages were handled, accepted and rejected ones among them.
C9_Witness ==
    /\ status.messagesReceived = 3
    /\ status.validMessages >= 1
    /\ status.rejectedMessages >= 1

HasScriptExtension(path) ==
    \E n \in 3..4 :
        /\ Len(path) >= n
        /\ SubSeq(path, Len(path) - n + 1, Len(path)) \in {".js", ".ts", ".jsx", ".tsx"}

RECURSIVE CommaList(_)
CommaList(paths) ==
    IF paths = <<>> THEN ""
    ELSE IF Len(paths) = 1 THEN paths[1]
    ELSE CommaList(SubSeq(paths, 1, Len(paths) - 1)) \o ", " \o paths[Len(paths)]

\* C10: while the preview tab shows a held project none of whose paths ends
\* in .js, .jsx, .ts or .tsx, the built document is the "no components
\* found" diagnostic, its list of available files is the paths of all files
\* of the project in file order, and no preview error is set.
C10_NoComponentsDiagnostic ==
    (/\ proj # NULL
     /\ tab = "preview"
     /\ \A i \in 1..Len(proj.files) : ~HasScriptExtension(proj.files[i].path))
        => /\ html.kind = "noComponents"
           /\ html.heading = "No React Components Found"
           /\ html.available =
                "Available files: " \o CommaList([i \in 1..Len(proj.files) |-> proj.files[i].path])
           /\ previewError = NULL

\* A project without script files replaced one with script files and is
\* shown in the preview tab.
C10_Witness ==
    /\ status.validMessages = 2
    /\ tab = "preview"
    /\ proj = DeclaredProject(PDocs)
    /\ html.kind = "noComponents"
    /\ html.available = "Available files: README.md, styles.css"

---------------------------------------------------------------------------
(* Root-component discovery. *)

\* The claim's "bound to a callable", read off the global object.
BoundToCallable(name) ==
    \E i \in 1..Len(frame.window) : frame.window[i] = [name |-> name, callable |-> TRUE]

UpperCaseLetters == {CharAt(UpperCase, i) : i \in 1..Len(UpperCase)}

\* The claim's fallback: the callables, in the global object's order, whose
\* name starts with an upper-case letter and is not a React base class.
UpperCaseCallables ==
    LET Qualifies(p) ==
            /\ p.callable
            /\ CharAt(p.name, 1) \in UpperCaseLetters
            /\ p.name \notin {"Component", "PureComponent"}
    IN SelectSeq(frame.window, Qualifies)

CallableNames ==
    LET IsCallable(p) == p.callable
        callables == SelectSeq(frame.window, IsCallable)
    IN [i \in 1..Len(callables) |-> callables[i].name]

---------------------------------------------------------------------------
(* The builder under exceptions. *)

\* A step in which the build effect runs: proj or tab has changed, and a
\* project is held and the preview tab is shown afterwards.
BuildStep ==
    /\ IF MessageStep THEN Accepted(Msg) ELSE tab' # tab
    /\ proj' # NULL
    /\ tab' = "preview"

\* What the claim expects of one script file.
ExpectedScript(f) ==
    IF f.path \in fault.strip THEN "// Error processing " \o f.path \o ": Error"
    ELSE "// File: " \o f.path \o "\n" \o stripTS(f.content)

RECURSIVE ExpectedScripts(_)
ExpectedScripts(files) ==
    IF files = <<>> THEN ""
    ELSE IF ~HasScriptExtension(files[1].path) THEN ExpectedScripts(Tail(files))
    ELSE LET rest == ExpectedScripts(Tail(files))
         IN IF \A i \in 2..Len(files) : ~HasScriptExtension(files[i].path)
            THEN ExpectedScript(files[1])
            ELSE ExpectedScript(files[1]) \o "\n\n" \o rest

\* C13: every run of the builder for a held project yields a document.  When
\* only the stripping of some script files throws, the application document
\* is built, with an error comment in place of each such file and the
\* stripped text of every other script file.  When another statement throws,
\* the result is the minimal error document, the preview error is set, and
\* the rejection log and the counters are as the step would have left them
\* without the exception.
C13_BuilderNeverRaises ==
    [][BuildStep =>
        /\ html'.kind \in {"noComponents", "app", "buildError"}
        /\ IF fault.build
           THEN /\ html' = [kind |-> "buildError"]
                /\ previewError' = [message |-> "Failed to build preview"]
                /\ rej' = rej
                /\ status'.rejectedMessages = status.rejectedMessages
                /\ status'.messagesReceived =
                       status.messagesReceived + (IF MessageStep THEN 1 ELSE 0)
                /\ status'.validMessages =
                       status.validMessages + (IF MessageStep THEN 1 ELSE 0)
           ELSE /\ previewError' = (IF MessageStep THEN NULL ELSE previewError)
                /\ (\E i \in 1..Len(proj'.files) : HasScriptExtension(proj'.files[i].path))
                   => /\ html'.kind = "app"
                      /\ html'.userJs = ExpectedScripts(proj'.files)
    ]_vars

\* The stripping of App.tsx threw: its part is the error comment, and
\* lib/util.ts is built behind it.
C13_Witness ==
    /\ html.kind = "app"
    /\ fault = [build |-> FALSE, strip |-> {"App.tsx"}]
    /\ html.userJs = "// Error processing App.tsx: Error\n\n// File: lib/util.ts\nconst u= 1;"

---------------------------------------------------------------------------
(* stripTS as a rewrite of texts. *)

\* The import, export and type rules of the chain (lines 56-62 and 65-67), in
\* its order: what a further run applies of them to a text.
ExportAndTypeRules(text) == Chain(ImportRules \o ExportRules \o TypeRules, text)

\* C14: a text that stripTS has produced is left unchanged by the import,
\* export and type-annotation rules of a further run.
C14_SecondRunChangesNothing ==
    src.passes >= 1 => ExportAndTypeRules(src.text) = src.text

\* The occurrences of the character c among the first n characters of s.
Count(s, c, n) == Cardinality({i \in 1..n : SubSeq(s, i, i) = c})

\* Every closing bracket closes an earlier opening one, and none stays open.
Nested(s, open, close) ==
    /\ \A n \in 1..Len(s) : Count(s, close, n) <= Count(s, open, n)
    /\ Count(s, close, Len(s)) = Count(s, open, Len(s))

Balanced(s) == Nested(s, "{", "}") /\ Nested(s, "(", ")")

\* C15: a text whose braces and parentheses are balanced is still balanced
\* after stripTS has run on it.
C15_BalancePreserved ==
    (src.passes >= 1 /\ Balanced(src.input)) => Balanced(src.text)

---------------------------------------------------------------------------
(* The dismiss timers and the selection. *)

\* C16: at every moment at most one banner-dismiss timer is pending.
C16_SingleDismissTimer == Len(timers) <= 1

\* C17: a selected file is one of the files of the project that is held.
C17_SelectionInHeldProject ==
    selected # NULL =>
        /\ proj # NULL
        /\ \E i \in 1..Len(proj.files) : proj.files[i] = selected

=============================================================================
